---- MODULE Spec2Model ----
(***************************************************************************)
(* rental-mobil: the React booking form (App.tsx), the Express backend     *)
(* (server/server.js) and the MariaDB schema and data (rental_mobil dump). *)
(*                                                                         *)
(* JavaScript numbers are IEEE-754 doubles.  The price logic multiplies by *)
(* discountPct / 100, which is not an integer operation, so the model      *)
(* carries doubles exactly.  A number that is an integer of fewer than 32   *)
(* bits is [int |-> n]; any other double is [neg, mag, exp], the value     *)
(* (-1)^neg * mag * 2^exp with mag odd and written as a little-endian      *)
(* sequence of 15-bit limbs.  Each arithmetic operation computes the exact *)
(* result and rounds it to 53 significant bits, ties to even.  Overflow to *)
(* Infinity, subnormals, NaN and the sign of zero are outside the range of *)
(* the values modelled.                                                    *)
(***************************************************************************)
EXTENDS Integers, Sequences, FiniteSets, TLC

(* ---------- natural numbers of any size, as limb sequences ---------- *)
(* Least significant limb first, no leading zero limb: <<>> is 0. *)

Base == 2^15

RECURSIVE NatLimbs(_)
NatLimbs(n) == IF n = 0 THEN <<>> ELSE <<n % Base>> \o NatLimbs(n \div Base)

RECURSIVE LimbsNat(_)
LimbsNat(a) == IF a = <<>> THEN 0 ELSE a[1] + Base * LimbsNat(Tail(a))

RECURSIVE Trim(_)
Trim(a) ==
  IF a = <<>> THEN <<>>
  ELSE IF a[Len(a)] = 0 THEN Trim(SubSeq(a, 1, Len(a) - 1))
  ELSE a

Limb(a, i) == IF i >= 1 /\ i <= Len(a) THEN a[i] ELSE 0

RECURSIVE AddFrom(_, _, _, _)
AddFrom(a, b, i, carry) ==
  IF i > Len(a) /\ i > Len(b)
    THEN (IF carry = 0 THEN <<>> ELSE <<carry>>)
    ELSE LET s == Limb(a, i) + Limb(b, i) + carry
         IN  <<s % Base>> \o AddFrom(a, b, i + 1, s \div Base)

AddLimbs(a, b) == AddFrom(a, b, 1, 0)

\* a - b for a >= b
RECURSIVE SubFrom(_, _, _, _)
SubFrom(a, b, i, borrow) ==
  IF i > Len(a)
    THEN <<>>
    ELSE LET d == Limb(a, i) - Limb(b, i) - borrow
         IN  <<d % Base>> \o SubFrom(a, b, i + 1, IF d < 0 THEN 1 ELSE 0)

SubLimbs(a, b) == Trim(SubFrom(a, b, 1, 0))

\* -1, 0, 1 as a < b, a = b, a > b
RECURSIVE CmpFrom(_, _, _)
CmpFrom(a, b, i) ==
  IF i = 0 THEN 0
  ELSE IF a[i] > b[i] THEN 1
  ELSE IF a[i] < b[i] THEN -1
  ELSE CmpFrom(a, b, i - 1)

CmpLimbs(a, b) ==
  IF Len(a) > Len(b) THEN 1
  ELSE IF Len(a) < Len(b) THEN -1
  ELSE CmpFrom(a, b, Len(a))

\* a * m for a single limb m
RECURSIVE MulSmallFrom(_, _, _, _)
MulSmallFrom(a, m, i, carry) ==
  IF i > Len(a)
    THEN (IF carry = 0 THEN <<>> ELSE <<carry>>)
    ELSE LET t == a[i] * m + carry
         IN  <<t % Base>> \o MulSmallFrom(a, m, i + 1, t \div Base)

MulSmall(a, m) == Trim(MulSmallFrom(a, m, 1, 0))

RECURSIVE MulLimbs(_, _)
MulLimbs(a, b) ==
  IF a = <<>> \/ b = <<>> THEN <<>>
  ELSE Trim(AddLimbs(MulSmall(a, b[1]), <<0>> \o MulLimbs(a, Tail(b))))

\* long division of a by d, 0 < d <= Base, most significant limb first: the
\* quotient's limbs (untrimmed) and the remainder
RECURSIVE DivFrom(_, _, _, _)
DivFrom(a, d, i, rem) ==
  IF i = 0 THEN [q |-> <<>>, r |-> rem]
  ELSE LET cur  == rem * Base + a[i]
           rest == DivFrom(a, d, i - 1, cur % d)
       IN  [q |-> rest.q \o <<cur \div d>>, r |-> rest.r]

DivSmall(a, d) ==
  LET res == DivFrom(a, d, Len(a), 0) IN [q |-> Trim(res.q), r |-> res.r]

\* a * 2^k
ShiftL(a, k) ==
  IF a = <<>> THEN <<>>
  ELSE [i \in 1..(k \div 15) |-> 0] \o MulSmall(a, 2^(k % 15))

\* a \div 2^k
ShiftR(a, k) ==
  IF Len(a) <= k \div 15 THEN <<>>
  ELSE DivSmall(SubSeq(a, (k \div 15) + 1, Len(a)), 2^(k % 15)).q

RECURSIVE BitLenSmall(_)
BitLenSmall(n) == IF n = 0 THEN 0 ELSE 1 + BitLenSmall(n \div 2)

\* the number of significant bits
BitLen(a) ==
  IF a = <<>> THEN 0 ELSE 15 * (Len(a) - 1) + BitLenSmall(a[Len(a)])

RECURSIVE LowZerosSmall(_)
LowZerosSmall(n) == IF n % 2 = 1 THEN 0 ELSE 1 + LowZerosSmall(n \div 2)

\* the number of zero bits below the lowest set bit of a > 0
RECURSIVE LowZeros(_)
LowZeros(a) ==
  IF a[1] = 0 THEN 15 + LowZeros(Tail(a)) ELSE LowZerosSmall(a[1])

(* ---------- IEEE-754 doubles ---------- *)

NumInt(n) == [int |-> n]

NumIsInt32(v) == "int" \in DOMAIN v

\* sign, magnitude and exponent of a number
Expand(v) ==
  IF NumIsInt32(v)
    THEN [neg |-> v.int < 0,
          mag |-> NatLimbs(IF v.int < 0 THEN -v.int ELSE v.int),
          exp |-> 0]
    ELSE v

\* the canonical form of (-1)^neg * mag * 2^exp
Canon(neg, mag, exp) ==
  IF mag = <<>> THEN NumInt(0)
  ELSE LET z == LowZeros(mag)
           m == ShiftR(mag, z)
           e == exp + z
       IN  IF e >= 0 /\ BitLen(m) + e <= 31
             THEN NumInt(IF neg THEN -LimbsNat(ShiftL(m, e))
                                ELSE LimbsNat(ShiftL(m, e)))
             ELSE [neg |-> neg, mag |-> m, exp |-> e]

\* mag * 2^exp (plus something below its last bit when sticky) rounded to 53
\* significant bits, to nearest, ties to even
RoundDouble(neg, mag, exp, sticky) ==
  IF BitLen(mag) <= 53 THEN Canon(neg, mag, exp)
  ELSE LET drop == BitLen(mag) - 53
           kept == ShiftR(mag, drop)
           low  == SubLimbs(mag, ShiftL(kept, drop))
           c    == CmpLimbs(low, ShiftL(<<1>>, drop - 1))
           up   == c > 0 \/ (c = 0 /\ (sticky \/ kept[1] % 2 = 1))
       IN  Canon(neg, IF up THEN AddLimbs(kept, <<1>>) ELSE kept, exp + drop)

NumNeg(v) ==
  IF NumIsInt32(v) THEN NumInt(-v.int)
  ELSE [v EXCEPT !.neg = ~v.neg]

Abs(n) == IF n < 0 THEN -n ELSE n

\* a * b is an integer of fewer than 32 bits
SmallProduct(a, b) == a = 0 \/ Abs(b) <= 2147483647 \div Abs(a)

\* a + b is an integer of fewer than 32 bits
SmallSum(a, b) == Abs(a) < 2^30 /\ Abs(b) < 2^30

\* JavaScript a * b (the product of two small integers is exact)
NumMul(v, w) ==
  IF NumIsInt32(v) /\ NumIsInt32(w) /\ SmallProduct(v.int, w.int)
    THEN NumInt(v.int * w.int)
    ELSE LET x == Expand(v)
             y == Expand(w)
         IN  RoundDouble(x.neg # y.neg, MulLimbs(x.mag, y.mag), x.exp + y.exp, FALSE)

\* the exact sum of two doubles, rounded
AddRounded(x, y) ==
  LET e  == IF x.exp < y.exp THEN x.exp ELSE y.exp
      xm == ShiftL(x.mag, x.exp - e)
      ym == ShiftL(y.mag, y.exp - e)
  IN  IF x.neg = y.neg THEN RoundDouble(x.neg, AddLimbs(xm, ym), e, FALSE)
      ELSE IF CmpLimbs(xm, ym) >= 0
        THEN RoundDouble(x.neg, SubLimbs(xm, ym), e, FALSE)
        ELSE RoundDouble(y.neg, SubLimbs(ym, xm), e, FALSE)

\* JavaScript a + b (the sum of two small integers is exact)
NumAdd(v, w) ==
  IF NumIsInt32(v) /\ NumIsInt32(w) /\ SmallSum(v.int, w.int)
    THEN NumInt(v.int + w.int)
    ELSE AddRounded(Expand(v), Expand(w))

\* JavaScript a - b
NumSub(v, w) ==
  IF NumIsInt32(v) /\ NumIsInt32(w) /\ SmallSum(v.int, w.int)
    THEN NumInt(v.int - w.int)
    ELSE AddRounded(Expand(v), Expand(NumNeg(w)))

\* JavaScript n / d for integers n >= 0 and 0 < d <= 2^15: the quotient to 80
\* fractional bits, which are 64 significant bits at least, with the remainder
\* as the sticky bit, then rounded (a quotient that is an integer is exact)
NumDivInt(n, d) ==
  IF n % d = 0 THEN NumInt(n \div d)
  ELSE LET res == DivSmall(ShiftL(NatLimbs(n), 80), d)
       IN  RoundDouble(FALSE, res.q, -80, res.r # 0)

NumGeqZero(v) == IF NumIsInt32(v) THEN v.int >= 0 ELSE ~v.neg

\* v rounded to the nearest integer, halves away from zero
NumRoundHalfAway(v) ==
  IF NumIsInt32(v) \/ v.exp >= 0 THEN v
  ELSE LET k  == -v.exp
           ip == ShiftR(v.mag, k)
           up == CmpLimbs(SubLimbs(v.mag, ShiftL(ip, k)), ShiftL(<<1>>, k - 1)) >= 0
       IN  Canon(v.neg, IF up THEN AddLimbs(ip, <<1>>) ELSE ip, 0)

\* v >= w; the difference is rounded, its sign is not
NumGeq(v, w) == NumGeqZero(NumSub(v, w))

(* ---------- other JavaScript and JSON values ---------- *)

Null == [null |-> TRUE]

NaN == [nan |-> TRUE]

\* a || b
OrElse(v, w) == IF v = NaN \/ v = Null \/ v = NumInt(0) THEN w ELSE v

\* the value of a character as a digit (parseInt takes letters in either case)
DigitValue ==
  [c \in {"0", "1", "2", "3", "4", "5", "6", "7", "8", "9",
          "a", "b", "c", "d", "e", "f", "A", "B", "C", "D", "E", "F"} |->
     CASE c = "0" -> 0 [] c = "1" -> 1 [] c = "2" -> 2 [] c = "3" -> 3
       [] c = "4" -> 4 [] c = "5" -> 5 [] c = "6" -> 6 [] c = "7" -> 7
       [] c = "8" -> 8 [] c = "9" -> 9
       [] c \in {"a", "A"} -> 10 [] c \in {"b", "B"} -> 11
       [] c \in {"c", "C"} -> 12 [] c \in {"d", "D"} -> 13
       [] c \in {"e", "E"} -> 14 [] c \in {"f", "F"} -> 15]

\* the digits of text in the radix from position i on, up to the first
\* character that is no digit of the radix: their value, as limbs, and how
\* many there were
RECURSIVE ParseDigits(_, _, _, _, _)
ParseDigits(text, i, radix, acc, n) ==
  IF /\ i <= Len(text)
     /\ text[i] \in DOMAIN DigitValue
     /\ DigitValue[text[i]] < radix
     /\ Len(acc) >= 0   \* always true: has TLC compute acc at each digit
    THEN ParseDigits(text, i + 1, radix,
                     AddLimbs(MulSmall(acc, radix), NatLimbs(DigitValue[text[i]])),
                     n + 1)
    ELSE [val |-> acc, digits |-> n]

\* the white space and line terminators parseInt skips, of those a string of
\* this module can hold: space, tab, line feed, carriage return, form feed,
\* vertical tab (U+000B), no-break space (U+00A0), ogham space mark (U+1680),
\* byte order mark (U+FEFF)
WhiteSpace == {" ", "\t", "\n", "\r", "\f", "", " ", " ", "﻿"}

RECURSIVE SkipSpaces(_, _)
SkipSpaces(text, i) ==
  IF i <= Len(text) /\ text[i] \in WhiteSpace THEN SkipSpaces(text, i + 1) ELSE i

\* parseInt(text) without a radix; text is a sequence of characters.  White
\* space is skipped, then a sign is taken, then "0x" or "0X" makes the radix
\* 16, then the digits are read: none gives NaN, else the number is their
\* value rounded to a double.  Infinity, which parseInt gives from 2^1024
\* (309 digits) on, is not modelled
ParseInt(text) ==
  LET start  == SkipSpaces(text, 1)
      signed == start <= Len(text) /\ text[start] \in {"-", "+"}
      first  == IF signed THEN start + 1 ELSE start
      hex    == /\ first + 1 <= Len(text)
                /\ text[first] = "0"
                /\ text[first + 1] \in {"x", "X"}
      res    == IF hex THEN ParseDigits(text, first + 2, 16, <<>>, 0)
                       ELSE ParseDigits(text, first, 10, <<>>, 0)
  IN  IF res.digits = 0 THEN NaN
      ELSE RoundDouble(signed /\ text[start] = "-", res.val, 0, FALSE)

(* ---------- bounds of the model ---------- *)

\* POST /booking calls sent straight to the backend in one run of Spec
MaxCalls == 2

\* clicks on "Pesan Sekarang" in one run of SpecClient
MaxClicks == 1

\* SpecQuote: rental days -2..MaxDays, extra hours 0..MaxHours, prices per day
\* 0..MaxSmallPrice and the catalog's
MaxDays == 12

MaxHours == 2

MaxSmallPrice == 7

(* ---------- the database (rental_mobil dump) ---------- *)

\* INSERT INTO `cars` VALUES ...
InitCars ==
  << [id |-> 1, name |-> "Avanza",    price_per_day |-> 640000],
     [id |-> 2, name |-> "Innova",    price_per_day |-> 890000],
     [id |-> 3, name |-> "New Altis", price_per_day |-> 1500000],
     [id |-> 4, name |-> "New Camry", price_per_day |-> 2190000],
     [id |-> 5, name |-> "Alphard",   price_per_day |-> 3220000] >>

\* INSERT INTO `bookings` VALUES ...  (booked_at is not modelled: nothing
\* reads it)
InitBookings ==
  << [id |-> 1, car_id |-> 2, rental_days |-> 1, extra_hours |-> 0, total_price |-> 890000],
     [id |-> 2, car_id |-> 2, rental_days |-> 1, extra_hours |-> 0, total_price |-> 890000],
     [id |-> 3, car_id |-> 3, rental_days |-> 6, extra_hours |-> 0, total_price |-> 8100000],
     [id |-> 4, car_id |-> 1, rental_days |-> 1, extra_hours |-> 0, total_price |-> 640000],
     [id |-> 5, car_id |-> 4, rental_days |-> 1, extra_hours |-> 0, total_price |-> 2190000] >>

\* CREATE TABLE `bookings` (...) AUTO_INCREMENT=6
InitAutoIncrement == 6

VARIABLES
  cars,        \* table cars, in primary-key order
  bookings,    \* table bookings, in insertion order
  autoInc,     \* the next AUTO_INCREMENT value of bookings
  reqs,        \* the POST /booking calls made so far, in the order they were made
  clientCars,  \* App: the cars state
  booking,     \* App: the booking state (the form)
  quote,       \* SpecQuote: the values a render computed
  alerts       \* App: the text of the last alert(), NoAlert before the first

vars == <<cars, bookings, autoInc, reqs, clientCars, booking, quote, alerts>>

storeVars == <<cars, bookings, autoInc>>

clientVars == <<clientCars, booking, quote, alerts>>

(* ---------- the store: an INSERT into bookings ---------- *)

\* a bound parameter as the value of an INT NOT NULL column, in strict SQL
\* mode: NULL is refused, a number with a fraction is rounded half away from
\* zero, a number out of the range of INT is refused
SqlInt(v) ==
  IF v = Null \/ v = NaN THEN [ok |-> FALSE, val |-> 0]
  ELSE IF NumIsInt32(v) THEN [ok |-> TRUE, val |-> v.int]
  ELSE LET r == NumRoundHalfAway(v)
       IN  IF NumIsInt32(r) THEN [ok |-> TRUE, val |-> r.int]
           ELSE IF r = [neg |-> TRUE, mag |-> <<1>>, exp |-> 31]
             THEN [ok |-> TRUE, val |-> -2147483647 - 1]
           ELSE [ok |-> FALSE, val |-> 0]

CarIds(table) == {table[i].id : i \in 1..Len(table)}

\* the columns of the row the INSERT of server.js writes
InsertColumns(body) ==
  [car_id      |-> SqlInt(body.carId),
   rental_days |-> SqlInt(body.rentalDays),
   extra_hours |-> SqlInt(body.extraHours),
   total_price |-> SqlInt(body.totalPrice)]

\* every column has a value of its type
ColumnsOk(col) ==
  col.car_id.ok /\ col.rental_days.ok /\ col.extra_hours.ok /\ col.total_price.ok

\* ChecksOk with the first check written >= 0
ChecksOk_zeroDays(col) == col.rental_days.val >= 0 /\ col.extra_hours.val >= 0

\* CHECK (`rental_days` > 0), CHECK (`extra_hours` >= 0)
ChecksOk(col) == col.rental_days.val > 0 /\ col.extra_hours.val >= 0

\* ForeignKeyOk of a schema without the constraint
ForeignKeyOk_absent(col, table) == TRUE

\* CONSTRAINT `fk_bookings_car` FOREIGN KEY (`car_id`) REFERENCES `cars` (`id`)
ForeignKeyOk(col, table) == col.car_id.val \in CarIds(table)

InsertAccepted(col, table) ==
  ColumnsOk(col) /\ ChecksOk(col) /\ ForeignKeyOk(col, table)

\* InnoDB takes the AUTO_INCREMENT value before it checks the foreign key,
\* so an INSERT refused by the foreign key leaves a gap in the ids
InsertTakesId(col) == ColumnsOk(col) /\ ChecksOk(col)

NewRow(col, id) ==
  [id |-> id, car_id |-> col.car_id.val, rental_days |-> col.rental_days.val,
   extra_hours |-> col.extra_hours.val, total_price |-> col.total_price.val]

(* ---------- server.js: POST /booking ---------- *)
(* A call is [from, body, phase, insertId].  phase:                        *)
(*   "sent"      the client called axios.post; the request is on its way   *)
(*   "lost"      the request did not reach the backend                     *)
(*   "queried"   the handler called pool.query(INSERT ...) and awaits it   *)
(*   "inserted"  the store ran the INSERT; insertId is the new row's id    *)
(*   "rejected"  the store refused the INSERT, or could not be reached     *)
(*   "ok"        the handler sent { message: 'Pemesanan berhasil!' }       *)
(*   "error"     the handler threw: the call ended without that message    *)
(*   "resolved", "caught"  the client's handleBooking ran its then / catch *)

Message == "Pemesanan berhasil!"

\* the handler up to the await, which express runs as the request arrives:
\* it reads the four fields of the body and calls pool.query with them,
\* whatever they are
HandlerStart(from, body) ==
  [from |-> from, body |-> body, phase |-> "queried", insertId |-> 0]

\* the request of the client's call i reaches the backend: the handler runs
\* up to the await
PostArrives(i) ==
  /\ i \in DOMAIN reqs
  /\ reqs[i].phase = "sent"
  /\ reqs' = [reqs EXCEPT ![i] = HandlerStart(reqs[i].from, reqs[i].body)]
  /\ UNCHANGED <<storeVars, clientVars>>

\* the request of the client's call i does not reach the backend (it is not
\* running, or the network fails): no handler runs, axios.post rejects
PostLost(i) ==
  /\ i \in DOMAIN reqs
  /\ reqs[i].phase = "sent"
  /\ reqs' = [reqs EXCEPT ![i].phase = "lost"]
  /\ UNCHANGED <<storeVars, clientVars>>

\* the store runs the INSERT of call i
StoreInsert(i) ==
  /\ i \in DOMAIN reqs
  /\ reqs[i].phase = "queried"
  /\ LET col == InsertColumns(reqs[i].body)
     IN  IF InsertAccepted(col, cars)
           THEN /\ bookings' = Append(bookings, NewRow(col, autoInc))
                /\ autoInc' = autoInc + 1
                /\ reqs' = [reqs EXCEPT ![i].phase = "inserted", ![i].insertId = autoInc]
           ELSE /\ bookings' = bookings
                /\ autoInc' = IF InsertTakesId(col) THEN autoInc + 1 ELSE autoInc
                /\ reqs' = [reqs EXCEPT ![i].phase = "rejected"]
  /\ UNCHANGED <<cars, clientVars>>

\* the store cannot be reached: pool.query rejects
StoreUnreachable(i) ==
  /\ i \in DOMAIN reqs
  /\ reqs[i].phase = "queried"
  /\ reqs' = [reqs EXCEPT ![i].phase = "rejected"]
  /\ UNCHANGED <<storeVars, clientVars>>

\* HandlerEnd of a handler that catches the rejection and answers as usual
HandlerEnd_swallows(i) ==
  /\ i \in DOMAIN reqs
  /\ reqs[i].phase \in {"inserted", "rejected"}
  /\ reqs' = [reqs EXCEPT ![i].phase = "ok"]
  /\ UNCHANGED <<storeVars, clientVars>>

\* the handler after the await: res.json(...) when the query resolved; when
\* it rejected, the await throws and res.json is never reached
HandlerEnd(i) ==
  /\ i \in DOMAIN reqs
  /\ reqs[i].phase \in {"inserted", "rejected"}
  /\ reqs' = [reqs EXCEPT ![i].phase =
                IF reqs[i].phase = "inserted" THEN "ok" ELSE "error"]
  /\ UNCHANGED <<storeVars, clientVars>>

(* ---------- App.tsx ---------- *)

NoAlert == "(none)"

Failure == "Gagal membooking"

NoQuote == [rendered |-> FALSE]

\* useState<BookingForm>({ selectedCar: null, rentalDays: 1, extraHours: 0 })
InitialForm ==
  [selectedCar |-> Null, rentalDays |-> NumInt(1), extraHours |-> NumInt(0)]

ExtraHourRate == 100000

\* calculateDiscountPct with the thresholds exclusive
calculateDiscountPct_exclusive(days) ==
  IF NumGeq(days, NumInt(11)) THEN 25
  ELSE IF NumGeq(days, NumInt(8)) THEN 20
  ELSE IF NumGeq(days, NumInt(5)) THEN 10
  ELSE 0

calculateDiscountPct(days) ==
  IF NumGeq(days, NumInt(10)) THEN 25
  ELSE IF NumGeq(days, NumInt(7)) THEN 20
  ELSE IF NumGeq(days, NumInt(4)) THEN 10
  ELSE 0

\* cars.find((c) => c.id === booking.selectedCar): the index of the first
\* match, 0 for undefined
RECURSIVE FindCar(_, _, _)
FindCar(list, id, i) ==
  IF i > Len(list) THEN 0
  ELSE IF list[i].id = id THEN i
  ELSE FindCar(list, id, i + 1)

\* PriceLogic with the discount taken on one day's price, not on the subtotal
PriceLogic_discountOneDay(list, form) ==
  LET found          == FindCar(list, form.selectedCar, 1)
      discountPct    == calculateDiscountPct(form.rentalDays)
      subtotal       == IF found # 0
                          THEN NumMul(list[found].price_per_day, form.rentalDays)
                          ELSE NumInt(0)
      extraHoursCost == NumMul(form.extraHours, NumInt(ExtraHourRate))
      discount       == IF found # 0
                          THEN NumMul(list[found].price_per_day, NumDivInt(discountPct, 100))
                          ELSE NumInt(0)
      total          == NumAdd(NumSub(subtotal, discount), extraHoursCost)
  IN  [rendered        |-> TRUE,
       selectedCarData |-> found,
       discountPct     |-> discountPct,
       subtotal        |-> subtotal,
       extraHoursCost  |-> extraHoursCost,
       discount        |-> discount,
       total           |-> total]

\* PRICE LOGIC: what a render computes from the cars and booking states
PriceLogic(list, form) ==
  LET found          == FindCar(list, form.selectedCar, 1)
      discountPct    == calculateDiscountPct(form.rentalDays)
      subtotal       == IF found # 0
                          THEN NumMul(list[found].price_per_day, form.rentalDays)
                          ELSE NumInt(0)
      extraHoursCost == NumMul(form.extraHours, NumInt(ExtraHourRate))
      discount       == NumMul(subtotal, NumDivInt(discountPct, 100))
      total          == NumAdd(NumSub(subtotal, discount), extraHoursCost)
  IN  [rendered        |-> TRUE,
       selectedCarData |-> found,
       discountPct     |-> discountPct,
       subtotal        |-> subtotal,
       extraHoursCost  |-> extraHoursCost,
       discount        |-> discount,
       total           |-> total]

\* res.json(rows) of GET /cars: SELECT * FROM cars ORDER BY id
CarsJson(table) ==
  [i \in 1..Len(table) |->
     [id |-> NumInt(table[i].id), name |-> table[i].name,
      price_per_day |-> NumInt(table[i].price_per_day)]]

\* React renders after every change of state and before the next event, so
\* what a handler reads from its closure (selectedCarData, total) is
\* PriceLogic of the state the event finds.

\* useEffect: axios.get('/cars').then((res) => setCars(res.data))
FetchCars ==
  /\ clientCars = <<>>
  /\ clientCars' = CarsJson(cars)
  /\ UNCHANGED <<storeVars, reqs, booking, quote, alerts>>

handleInputChange(field, value) ==
  /\ booking' = [booking EXCEPT ![field] = value]
  /\ UNCHANGED <<storeVars, reqs, clientCars, quote, alerts>>

\* the options the modelled user picks, of those the select offers
Picks == {1, 3}

\* the select's onChange: Number(e.target.value) of one of the options
ChangeSelectedCar ==
  \E i \in Picks :
    /\ i <= Len(clientCars)
    /\ handleInputChange("selectedCar", clientCars[i].id)

\* what the modelled user leaves in the rental-days field
DaysTexts ==
  { <<>>, <<"0">>, <<"-", "2">>, <<"1", "0">>,
    <<"2", "1", "4", "7", "4", "8", "3", "6", "4", "8">> }

\* what the modelled user leaves in the extra-hours field
HoursTexts == { <<>>, <<"2">>, <<"-", "1">> }

\* onChange of the rental-days input: parseInt(e.target.value) || 1
ChangeRentalDays ==
  \E text \in DaysTexts :
    handleInputChange("rentalDays", OrElse(ParseInt(text), NumInt(1)))

\* onChange of the extra-hours input: parseInt(e.target.value) || 0
ChangeExtraHours ==
  \E text \in HoursTexts :
    handleInputChange("extraHours", OrElse(ParseInt(text), NumInt(0)))

ClientCalls == {i \in DOMAIN reqs : reqs[i].from = "client"}

\* handleBooking up to the await: axios.post is called with the values of
\* the last render.  The button is rendered only when selectedCarData is
\* defined, so the early return is never taken.
handleBooking ==
  /\ Cardinality(ClientCalls) < MaxClicks
  /\ FindCar(clientCars, booking.selectedCar, 1) # 0
  /\ LET rendered == PriceLogic(clientCars, booking)
     IN  reqs' = Append(reqs,
                   [from     |-> "client",
                    body     |-> [carId      |-> clientCars[rendered.selectedCarData].id,
                                  rentalDays |-> booking.rentalDays,
                                  extraHours |-> booking.extraHours,
                                  totalPrice |-> rendered.total],
                    phase    |-> "sent",
                    insertId |-> 0])
  /\ UNCHANGED <<storeVars, clientVars>>

\* handleBooking after the await, the call fulfilled: setBooking(reset) and
\* alert(res.data.message)
handleBookingThen(i) ==
  /\ i \in ClientCalls
  /\ reqs[i].phase = "ok"
  /\ reqs' = [reqs EXCEPT ![i].phase = "resolved"]
  /\ booking' = [selectedCar |-> Null, rentalDays |-> NumInt(1), extraHours |-> NumInt(0)]
  /\ alerts' = Message
  /\ UNCHANGED <<storeVars, clientCars, quote>>

\* handleBookingCatch of a handler that resets the form in a finally block
handleBookingCatch_resets(i) ==
  /\ i \in ClientCalls
  /\ reqs[i].phase \in {"error", "lost"}
  /\ reqs' = [reqs EXCEPT ![i].phase = "caught"]
  /\ booking' = [selectedCar |-> Null, rentalDays |-> NumInt(1), extraHours |-> NumInt(0)]
  /\ alerts' = Failure
  /\ UNCHANGED <<storeVars, clientCars, quote>>

\* handleBooking after the await, the call failed: the catch block
handleBookingCatch(i) ==
  /\ i \in ClientCalls
  /\ reqs[i].phase \in {"error", "lost"}
  /\ reqs' = [reqs EXCEPT ![i].phase = "caught"]
  /\ alerts' = Failure
  /\ UNCHANGED <<storeVars, clientCars, booking, quote>>

(* ---------- a caller of the backend other than the form ---------- *)

BodyCarIds == {NumInt(1), NumInt(9), Null}

BodyDays == {NumInt(0), NumInt(2)}

BodyHours == {NumInt(-1), NumInt(0)}

\* 1280000 and 10.8
BodyTotals == {NumInt(1280000), NumDivInt(54, 5)}

Bodies ==
  [carId : BodyCarIds, rentalDays : BodyDays, extraHours : BodyHours,
   totalPrice : BodyTotals]

Post ==
  \E body \in Bodies :
    /\ Len(reqs) < MaxCalls
    /\ reqs' = Append(reqs, HandlerStart("direct", body))
    /\ UNCHANGED <<storeVars, clientVars>>

(* ---------- specifications ---------- *)

InitStore ==
  /\ cars = InitCars
  /\ bookings = InitBookings
  /\ autoInc = InitAutoIncrement


\* the backend and the store under any calls
Init ==
  /\ InitStore
  /\ reqs = <<>>
  /\ clientCars = <<>>
  /\ booking = InitialForm
  /\ quote = NoQuote
  /\ alerts = NoAlert

Next ==
  \/ Post
  \/ \E i \in DOMAIN reqs : StoreInsert(i)
  \/ \E i \in DOMAIN reqs : StoreUnreachable(i)
  \/ \E i \in DOMAIN reqs : HandlerEnd(i)

Spec == Init /\ [][Next]_vars

\* the form, the backend and the store
InitClient ==
  /\ InitStore
  /\ reqs = <<>>
  /\ clientCars = <<>>
  /\ booking = InitialForm
  /\ quote = NoQuote
  /\ alerts = NoAlert

NextClient ==
  \/ FetchCars
  \/ ChangeSelectedCar
  \/ ChangeRentalDays
  \/ ChangeExtraHours
  \/ handleBooking
  \/ \E i \in DOMAIN reqs : PostArrives(i)
  \/ \E i \in DOMAIN reqs : PostLost(i)
  \/ \E i \in DOMAIN reqs : StoreInsert(i)
  \/ \E i \in DOMAIN reqs : StoreUnreachable(i)
  \/ \E i \in DOMAIN reqs : HandlerEnd(i)
  \/ \E i \in DOMAIN reqs : handleBookingThen(i)
  \/ \E i \in DOMAIN reqs : handleBookingCatch(i)

SpecClient == InitClient /\ [][NextClient]_vars

\* the price logic alone, on a catalog of one car
QuotePrices == (0..MaxSmallPrice) \cup {InitCars[i].price_per_day : i \in 1..Len(InitCars)}

InitQuote ==
  /\ InitStore
  /\ reqs = <<>>
  /\ \E p \in QuotePrices :
       clientCars = <<[id |-> NumInt(1), name |-> "car", price_per_day |-> NumInt(p)]>>
  /\ \E d \in (-2)..MaxDays, h \in 0..MaxHours :
       booking = [selectedCar |-> NumInt(1), rentalDays |-> NumInt(d), extraHours |-> NumInt(h)]
  /\ quote = NoQuote
  /\ alerts = NoAlert

Render ==
  /\ ~quote.rendered
  /\ quote' = PriceLogic(clientCars, booking)
  /\ UNCHANGED <<storeVars, reqs, clientCars, booking, alerts>>

NextQuote == Render

SpecQuote == InitQuote /\ [][NextQuote]_vars
(* ---------- the claims ---------- *)

\* the inputs of the quote in SpecQuote
P == clientCars[1].price_per_day.int

D == booking.rentalDays.int

H == booking.extraHours.int

\* v = num / den exactly, for a natural number num given by its limbs
NumEqQuot(v, num, den) ==
  LET x   == Expand(v)
      lhs == MulLimbs(x.mag, NatLimbs(den))
  IN  /\ ~x.neg
      /\ IF x.exp >= 0 THEN ShiftL(lhs, x.exp) = num
                       ELSE lhs = ShiftL(num, -x.exp)

\* |v - num / den| <= (num / den) / 2^51
NumNearQuot(v, num, den) ==
  LET x    == Expand(v)
      lhs  == MulLimbs(x.mag, NatLimbs(den))
      a    == IF x.exp >= 0 THEN ShiftL(lhs, x.exp) ELSE lhs
      b    == IF x.exp >= 0 THEN num ELSE ShiftL(num, -x.exp)
      diff == IF CmpLimbs(a, b) >= 0 THEN SubLimbs(a, b) ELSE SubLimbs(b, a)
  IN  ~x.neg /\ CmpLimbs(ShiftL(diff, 51), b) <= 0

\* 100 * (P*D*pct/100) and 100 * (P*D - P*D*pct/100 + 100000*H), as limbs
DiscountTimes100 == NatLimbs(P * D * calculateDiscountPct(NumInt(D)))

TotalTimes100 ==
  AddLimbs(MulLimbs(NatLimbs(P * D), NatLimbs(100 - calculateDiscountPct(NumInt(D)))),
           MulLimbs(NatLimbs(100000 * H), NatLimbs(100)))

\* C1: the discount percent a render computes is 25 for 10 days and more, 20
\* for 7 to 9 days, 10 for 4 to 6 days and 0 below 4 days, so it is one of 0,
\* 10, 20, 25.
C1_DiscountTiers ==
  quote.rendered =>
    /\ (D >= 10) => quote.discountPct = 25
    /\ (D >= 7 /\ D <= 9) => quote.discountPct = 20
    /\ (D >= 4 /\ D <= 6) => quote.discountPct = 10
    /\ (D < 4) => quote.discountPct = 0
    /\ quote.discountPct \in {0, 10, 20, 25}

C1_Witness == quote.rendered /\ D = 10 /\ quote.discountPct = 25

\* C2 as claimed: for non-negative P, D and H the quote has subtotal = P*D,
\* discount = subtotal*pct/100, extraHoursCost = 100000*H and
\* total = subtotal - discount + extraHoursCost, all exactly, and total >= 0.
C2_Original ==
  (quote.rendered /\ P >= 0 /\ D >= 0 /\ H >= 0) =>
    /\ quote.subtotal = NumInt(P * D)
    /\ quote.extraHoursCost = NumInt(100000 * H)
    /\ NumEqQuot(quote.discount, DiscountTimes100, 100)
    /\ NumEqQuot(quote.total, TotalTimes100, 100)
    /\ NumGeqZero(quote.total)

\* C2 as amended: subtotal = P*D, extraHoursCost = 100000*H and total >= 0;
\* discount and total are exactly those of the formula when P*D*pct is a
\* multiple of 100, and within a relative error of 2^-51 of them otherwise.
C2_QuoteFormula ==
  (quote.rendered /\ P >= 0 /\ D >= 0 /\ H >= 0) =>
    /\ quote.subtotal = NumInt(P * D)
    /\ quote.extraHoursCost = NumInt(100000 * H)
    /\ NumGeqZero(quote.total)
    /\ IF (P * D * quote.discountPct) % 100 = 0
         THEN /\ NumEqQuot(quote.discount, DiscountTimes100, 100)
              /\ NumEqQuot(quote.total, TotalTimes100, 100)
         ELSE /\ NumNearQuot(quote.discount, DiscountTimes100, 100)
              /\ NumNearQuot(quote.total, TotalTimes100, 100)

\* a catalog price with a discount and extra hours
C2_Witness ==
  /\ quote.rendered
  /\ P = 3220000 /\ D = 7 /\ H = 2
  /\ quote.total = NumInt(3220000 * 7 - 4508000 + 200000)

\* C3 as claimed: 1500000 a day for 6 days and no extra hour gives 10 percent,
\* a discount of 150000 and a total of 1350000.
C3_Original ==
  (quote.rendered /\ P = 1500000 /\ D = 6 /\ H = 0) =>
    /\ quote.discountPct = 10
    /\ quote.discount = NumInt(150000)
    /\ quote.total = NumInt(1350000)

\* C3 as amended: 1500000 a day for 6 days and no extra hour gives 10 percent,
\* a discount of 900000 and a total of 8100000.
C3_ScenarioB ==
  (quote.rendered /\ P = 1500000 /\ D = 6 /\ H = 0) =>
    /\ quote.discountPct = 10
    /\ quote.discount = NumInt(900000)
    /\ quote.total = NumInt(8100000)

C3_Witness == quote.rendered /\ P = 1500000 /\ D = 6 /\ H = 0

\* C4 as claimed: 640000 a day for 10 days and 2 extra hours gives 25 percent,
\* a discount of 1600000, an extra-hours cost of 200000 and a total of 4800000.
C4_Original ==
  (quote.rendered /\ P = 640000 /\ D = 10 /\ H = 2) =>
    /\ quote.discountPct = 25
    /\ quote.discount = NumInt(1600000)
    /\ quote.extraHoursCost = NumInt(200000)
    /\ quote.total = NumInt(4800000)

\* C4 as amended: 640000 a day for 10 days and 2 extra hours gives 25 percent,
\* a discount of 1600000, an extra-hours cost of 200000 and a total of 5000000.
C4_ScenarioC ==
  (quote.rendered /\ P = 640000 /\ D = 10 /\ H = 2) =>
    /\ quote.discountPct = 25
    /\ quote.discount = NumInt(1600000)
    /\ quote.extraHoursCost = NumInt(200000)
    /\ quote.total = NumInt(5000000)

C4_Witness == quote.rendered /\ P = 640000 /\ D = 10 /\ H = 2

\* the calls the backend answered with the confirmation, and those that failed
Succeeded(c) == c.phase \in {"ok", "resolved"}

Failed(c) == c.phase \in {"error", "lost", "caught"}

RowsWithId(id) == {k \in DOMAIN bookings : bookings[k].id = id}

\* C5: every call answered with the confirmation has exactly one row, a new
\* one holding its values under an id no other row has; a failed call has
\* none; the ledger has grown by one row per INSERT that succeeded, so two
\* identical successful calls leave two rows.
C5_OneRowPerSuccess ==
  /\ \A i \in DOMAIN reqs :
       /\ Succeeded(reqs[i]) =>
            /\ Cardinality(RowsWithId(reqs[i].insertId)) = 1
            /\ \A k \in RowsWithId(reqs[i].insertId) :
                 /\ k > Len(InitBookings)
                 /\ bookings[k] = NewRow(InsertColumns(reqs[i].body), reqs[i].insertId)
       /\ Failed(reqs[i]) => reqs[i].insertId = 0
  /\ \A i, j \in DOMAIN reqs :
       (i # j /\ reqs[i].insertId # 0) => reqs[i].insertId # reqs[j].insertId
  /\ \A j, k \in DOMAIN bookings : j # k => bookings[j].id # bookings[k].id
  /\ Len(bookings) - Len(InitBookings)
       = Cardinality({i \in DOMAIN reqs : reqs[i].insertId # 0})
  /\ (\A i \in DOMAIN reqs : Succeeded(reqs[i]) \/ Failed(reqs[i])) =>
       Len(bookings) - Len(InitBookings)
         = Cardinality({i \in DOMAIN reqs : Succeeded(reqs[i])})

\* two identical calls succeeded, and left two rows
C5_Witness ==
  /\ Len(reqs) = 2
  /\ reqs[1].body = reqs[2].body
  /\ Succeeded(reqs[1]) /\ Succeeded(reqs[2])
  /\ Len(bookings) = Len(InitBookings) + 2

UnknownCar(c) ==
  ~SqlInt(c.body.carId).ok \/ SqlInt(c.body.carId).val \notin CarIds(cars)

\* C6: a call whose vehicle id is not in the catalog is never answered with
\* the confirmation and never gets a row: once the handler has resumed, the
\* call has failed.
C6_UnknownCarFails ==
  /\ \A i \in DOMAIN reqs :
       UnknownCar(reqs[i]) =>
         /\ reqs[i].phase \in {"queried", "rejected", "error"}
         /\ reqs[i].insertId = 0
  /\ Len(bookings) - Len(InitBookings)
       <= Cardinality({i \in DOMAIN reqs : ~UnknownCar(reqs[i])})

\* a call for car 9 with valid days and hours has failed
C6_Witness ==
  \E i \in DOMAIN reqs :
    /\ reqs[i].body.carId = NumInt(9)
    /\ reqs[i].body.rentalDays = NumInt(2)
    /\ reqs[i].body.extraHours = NumInt(0)
    /\ reqs[i].phase = "error"
    /\ bookings = InitBookings

ResetForm ==
  [selectedCar |-> Null, rentalDays |-> NumInt(1), extraHours |-> NumInt(0)]

\* C7: handleBooking resets the form exactly when its call succeeded, and then
\* shows the confirmation; when the call failed it shows the failure notice,
\* leaves the form as it is and sends no further call. No other step of a
\* submission (sending it, the backend's steps) changes the form.
C7_ResetIffSuccess ==
  [][ /\ \A i \in DOMAIN reqs :
           /\ (reqs[i].phase = "ok" /\ reqs'[i].phase = "resolved") =>
                (booking' = ResetForm /\ alerts' = Message)
           /\ (reqs[i].phase \in {"error", "lost"} /\ reqs'[i].phase = "caught") =>
                (booking' = booking /\ alerts' = Failure /\ Len(reqs') = Len(reqs))
      /\ (reqs' # reqs /\ booking' # booking) =>
           \E i \in DOMAIN reqs : reqs[i].phase = "ok" /\ reqs'[i].phase = "resolved"
    ]_vars

\* a call failed, the notice is up and the form still holds what was sent
C7_Witness ==
  \E i \in DOMAIN reqs :
    /\ reqs[i].phase = "caught"
    /\ alerts = Failure
    /\ booking.selectedCar = reqs[i].body.carId
    /\ booking.rentalDays = reqs[i].body.rentalDays
    /\ booking.extraHours = reqs[i].body.extraHours

InvalidBody(c) ==
  \/ SqlInt(c.body.rentalDays).ok /\ SqlInt(c.body.rentalDays).val <= 0
  \/ SqlInt(c.body.extraHours).ok /\ SqlInt(c.body.extraHours).val < 0

\* pool.query(INSERT ...) has been called for the call
QueryIssued(c) ==
  c.phase \in {"queried", "inserted", "rejected", "ok", "error", "resolved", "caught"}

\* C8 as claimed: no INSERT is issued for a call with rental days <= 0 or
\* extra hours < 0.
C8_Original ==
  \A i \in DOMAIN reqs : InvalidBody(reqs[i]) => ~QueryIssued(reqs[i])

\* C9 as claimed: the form always holds rental days >= 1 and extra hours >= 0,
\* and no call is sent with other values.
C9_Original ==
  /\ NumGeq(booking.rentalDays, NumInt(1))
  /\ NumGeq(booking.extraHours, NumInt(0))
  /\ \A i \in DOMAIN reqs :
       reqs[i].from = "client" =>
         /\ NumGeq(reqs[i].body.rentalDays, NumInt(1))
         /\ NumGeq(reqs[i].body.extraHours, NumInt(0))

\* C10: every row of the ledger references a car of the catalog and has
\* rental days > 0 and extra hours >= 0, and the catalog is the one it was.
C10_LedgerConstraints ==
  /\ \A k \in DOMAIN bookings :
       /\ bookings[k].car_id \in CarIds(cars)
       /\ bookings[k].rental_days > 0
       /\ bookings[k].extra_hours >= 0
  /\ cars = InitCars

\* a row was added while calls with zero days and with negative hours failed
C10_Witness ==
  /\ Len(bookings) > Len(InitBookings)
  /\ \E i \in DOMAIN reqs :
       /\ Failed(reqs[i])
       /\ reqs[i].body.carId = NumInt(1)
       /\ (reqs[i].body.rentalDays = NumInt(0) \/ reqs[i].body.extraHours = NumInt(-1))
====
